---- MODULE Spec2Model ----
(***************************************************************************)
(* Model of examples/hamburger_standard/ExecModel_Burger.py: a straight-   *)
(* line script that builds a star-disc-envelope model through sf3dmodels   *)
(* library calls, exports it and plots it.  The script is interpreted      *)
(* statement by statement; a library call is a call step followed by a     *)
(* return (or a raise) step.                                               *)
(***************************************************************************)
EXTENDS Integers, Sequences, FiniteSets, TLC

VARIABLES pc, status, stack, env, dep, binds, log, written, err

vars == <<pc, status, stack, env, dep, binds, log, written, err>>

\* ---------------------------------------------------------------- bounds
\* Number of grid nodes kept of each field array (the script asks for 200^3).
NCells == 1
\* Largest mantissa of a density or temperature value the library returns.
MaxVal == 1

\* ---------------------------------------------------------------- values
\* Every Python value is a record; the field names tell the kind:
\*   [m, e]      the float m * 10^e, m without trailing zeros
\*   [c]         a constant of the library's units module U
\*   [op, x, y]  an arithmetic result over such constants, kept symbolic
\*   [a]         a numpy array, [l] a list, [s] a string, [none] None
\*   [obj]       an opaque library object
\*   [clock]     a reading of the clock, kept symbolic: any two may differ
\*   [unbound]   a name not bound yet
RECURSIVE Norm(_, _)
Norm(m, e) ==
    IF m = 0 THEN [m |-> 0, e |-> 0]
    ELSE IF m % 10 = 0 THEN Norm(m \div 10, e + 1)
    ELSE [m |-> m, e |-> e]

Num(m, e) == Norm(m, e)

RECURSIVE Pow10(_)
Pow10(n) == IF n <= 0 THEN 1 ELSE 10 * Pow10(n - 1)

Min2(a, b) == IF a <= b THEN a ELSE b

None == [none |-> TRUE]
Unbound == [unbound |-> TRUE]
Str(s) == [s |-> s]
List(q) == [l |-> q]
Arr(q) == [a |-> q]
Opaque(n) == [obj |-> n]
U(n) == [c |-> n]
Term(o, x, y) == [op |-> o, x |-> x, y |-> y]

IsNum(v) == DOMAIN v = {"m", "e"}
IsArr(v) == DOMAIN v = {"a"}

NumAdd(x, y) ==
    LET lo == Min2(x.e, y.e)
    IN  Norm(x.m * Pow10(x.e - lo) + y.m * Pow10(y.e - lo), lo)

NumSub(x, y) ==
    LET lo == Min2(x.e, y.e)
    IN  Norm(x.m * Pow10(x.e - lo) - y.m * Pow10(y.e - lo), lo)

NumMul(x, y) == Norm(x.m * y.m, x.e + y.e)

\* Division is exact in the model when the divisor is a power of ten, which
\* is the only numeric division the script does (the factor 1e6).
NumDiv(x, y) == IF y.m = 1 THEN Norm(x.m, x.e - y.e) ELSE Term("/", x, y)

Add(x, y) ==
    CASE IsNum(x) /\ IsNum(y) -> NumAdd(x, y)
      [] IsArr(x) /\ IsArr(y) ->
            Arr([i \in 1..Len(x.a) |-> NumAdd(x.a[i], y.a[i])])
      [] OTHER -> Term("+", x, y)

Sub(x, y) ==
    CASE IsNum(x) /\ IsNum(y) -> NumSub(x, y)
      [] OTHER -> Term("-", x, y)

Mul(x, y) ==
    CASE IsNum(x) /\ IsNum(y) -> NumMul(x, y)
      [] IsArr(x) /\ IsArr(y) ->
            Arr([i \in 1..Len(x.a) |-> NumMul(x.a[i], y.a[i])])
      [] IsArr(x) /\ IsNum(y) ->
            Arr([i \in 1..Len(x.a) |-> NumMul(x.a[i], y)])
      [] OTHER -> Term("*", x, y)

Div(x, y) ==
    CASE IsNum(x) /\ IsNum(y) -> NumDiv(x, y)
      [] IsArr(x) /\ IsNum(y) ->
            Arr([i \in 1..Len(x.a) |-> NumDiv(x.a[i], y)])
      [] OTHER -> Term("/", x, y)

Pow(x, y) == Term("**", x, y)

\* 'prefix%ssuffix' % arg
Format(prefix, suffix, arg) == prefix \o arg.s \o suffix

\* ------------------------------------------------------------ statements
\* A statement: its source line, whether it is a call, the function it
\* calls, the names it reads, the names it binds, and whether it holds a
\* literal.  Lines that nest a call in an expression are split (a, b) with
\* the inner call's result in a temporary.
Pure(id, line, reads, targets, lits) ==
    [id |-> id, line |-> line, kind |-> "pure", fn |-> "", reads |-> reads,
     targets |-> targets, lits |-> lits]

Call(id, line, fn, reads, targets, lits) ==
    [id |-> id, line |-> line, kind |-> "call", fn |-> fn, reads |-> reads,
     targets |-> targets, lits |-> lits]

Stmt_L17 == Call("L17", 17, "time.time", {}, <<"t0">>, FALSE)
Args_L17(e) == [none |-> TRUE]

Stmt_L22 == Pure("L22", 22, {}, <<"MStar">>, TRUE)
Eval_L22(e) == <<Mul(Num(86, -2), U("MSun"))>>

Stmt_L23 == Pure("L23", 23, {}, <<"MRate">>, TRUE)
Eval_L23(e) == <<Mul(Num(5, -6), U("MSun_yr"))>>

Stmt_L24 == Pure("L24", 24, {"MStar"}, <<"RStar">>, TRUE)
Eval_L24(e) == <<Mul(U("RSun"), Pow(Div(e["MStar"], U("MSun")), Num(8, -1)))>>

Stmt_L25 == Pure("L25", 25, {"MStar"}, <<"LStar">>, TRUE)
Eval_L25(e) == <<Mul(U("LSun"), Pow(Div(e["MStar"], U("MSun")), Num(4, 0)))>>

Stmt_L26 == Pure("L26", 26, {"LStar", "RStar"}, <<"TStar">>, TRUE)
Eval_L26(e) ==
    <<Mul(U("TSun"),
          Pow(Div(Div(e["LStar"], U("LSun")),
                  Pow(Div(e["RStar"], U("RSun")), Num(2, 0))),
              Num(25, -2)))>>

Stmt_L27 == Pure("L27", 27, {}, <<"Rd">>, TRUE)
Eval_L27(e) == <<Mul(Num(264, 0), U("AU"))>>

Stmt_L29 == Call("L29", 29, "print", {"RStar", "LStar", "TStar"}, <<>>, TRUE)
Args_L29(e) ==
    [p1 |-> Str("RStar:"), p2 |-> Div(e["RStar"], U("RSun")),
     p3 |-> Str(", LStar:"), p4 |-> Div(e["LStar"], U("LSun")),
     p5 |-> Str(", TStar:"), p6 |-> e["TStar"]]

Stmt_L36 == Pure("L36", 36, {}, <<"sizex", "sizey", "sizez">>, TRUE)
Eval_L36(e) ==
    LET v == Mul(Num(500, 0), U("AU")) IN <<v, v, v>>

Stmt_L37 == Pure("L37", 37, {}, <<"Nx", "Ny", "Nz">>, TRUE)
Eval_L37(e) == <<Num(200, 0), Num(200, 0), Num(200, 0)>>

Stmt_L38 ==
    Call("L38", 38, "Model.grid", {"sizex", "sizey", "sizez", "Nx", "Ny", "Nz"},
         <<"GRID">>, FALSE)
Args_L38(e) ==
    [p1 |-> List(<<e["sizex"], e["sizey"], e["sizez"]>>),
     p2 |-> List(<<e["Nx"], e["Ny"], e["Nz"]>>)]

Stmt_L39 == Pure("L39", 39, {"GRID"}, <<"NPoints">>, FALSE)
Eval_L39(e) == <<e["GRID"].NPoints>>

Stmt_L48 == Call("L48", 48, "Res.Rho0", {"MRate", "Rd", "MStar"}, <<"Rho0">>, FALSE)
Args_L48(e) == [p1 |-> e["MRate"], p2 |-> e["Rd"], p3 |-> e["MStar"]]

Stmt_L49 == Pure("L49", 49, {}, <<"Arho">>, TRUE)
Eval_L49(e) == <<None>>

Stmt_L50 == Pure("L50", 50, {"Rd"}, <<"Renv">>, TRUE)
Eval_L50(e) == <<Mul(Num(25, -1), e["Rd"])>>

Stmt_L51 ==
    Call("L51", 51, "Model.density_Env_Disc",
         {"RStar", "Rd", "Rho0", "Arho", "GRID", "Renv"}, <<"densEnv">>, TRUE)
Args_L51(e) ==
    [p1 |-> e["RStar"], p2 |-> e["Rd"], p3 |-> e["Rho0"], p4 |-> e["Arho"],
     p5 |-> e["GRID"], discFlag |-> FALSE, envFlag |-> TRUE,
     renv_max |-> e["Renv"]]

Stmt_L56 == Pure("L56", 56, {}, <<"H0sf">>, TRUE)
Eval_L56(e) == <<Num(3, -2)>>

Stmt_L57 == Pure("L57", 57, {}, <<"Arho">>, TRUE)
Eval_L57_StillNone(e) == <<None>>
Eval_L57(e) == <<Num(525, -2)>>

Stmt_L58 == Pure("L58", 58, {"Rd"}, <<"Rdisc">>, TRUE)
Eval_L58(e) == <<Mul(Num(15, -1), e["Rd"])>>

Stmt_L59 ==
    Call("L59", 59, "Model.density_Hamburgers",
         {"RStar", "H0sf", "Rd", "Rho0", "Arho", "GRID", "Rdisc"},
         <<"densDisc">>, TRUE)
Args_L59(e) ==
    [p1 |-> e["RStar"], p2 |-> e["H0sf"], p3 |-> e["Rd"], p4 |-> e["Rho0"],
     p5 |-> e["Arho"], p6 |-> e["GRID"], discFlag |-> TRUE,
     rdisc_max |-> e["Rdisc"]]

Stmt_L64 ==
    Call("L64", 64, "Model.Struct", {"densEnv", "densDisc"}, <<"density">>, TRUE)
Args_L64_EnvelopeOnly(e) ==
    [total |-> e["densEnv"].total,
     disc |-> e["densDisc"].total,
     env |-> e["densEnv"].total,
     H |-> e["densDisc"].H,
     Rt |-> e["densDisc"].Rt,
     discFlag |-> TRUE,
     envFlag |-> TRUE,
     r_disc |-> e["densDisc"].r_disc,
     r_env |-> e["densEnv"].r_env,
     streamline |-> e["densEnv"].streamline]
Args_L64(e) ==
    [total |-> Add(e["densEnv"].total, e["densDisc"].total),
     disc |-> e["densDisc"].total,
     env |-> e["densEnv"].total,
     H |-> e["densDisc"].H,
     Rt |-> e["densDisc"].Rt,
     discFlag |-> TRUE,
     envFlag |-> TRUE,
     r_disc |-> e["densDisc"].r_disc,
     r_env |-> e["densEnv"].r_env,
     streamline |-> e["densEnv"].streamline]

Stmt_L78 == Pure("L78", 78, {}, <<"T10Env">>, TRUE)
Eval_L78(e) == <<Num(250, 0)>>

Stmt_L79 == Pure("L79", 79, {}, <<"Tmin">>, TRUE)
Eval_L79(e) == <<Num(10, 0)>>

Stmt_L80 == Pure("L80", 80, {}, <<"BT">>, TRUE)
Eval_L80(e) == <<Num(60, 0)>>

Stmt_L81 ==
    Call("L81", 81, "Model.temperature_Hamburgers",
         {"TStar", "RStar", "MStar", "MRate", "Rd", "T10Env", "BT", "density",
          "GRID", "Tmin"}, <<"temperature">>, TRUE)
Args_L81(e) ==
    [p1 |-> e["TStar"], p2 |-> e["RStar"], p3 |-> e["MStar"],
     p4 |-> e["MRate"], p5 |-> e["Rd"], p6 |-> e["T10Env"], p7 |-> e["BT"],
     p8 |-> e["density"], p9 |-> e["GRID"], Tmin_disc |-> e["Tmin"],
     inverted |-> FALSE]

Stmt_L87 ==
    Call("L87", 87, "Model.velocity", {"RStar", "MStar", "Rd", "density", "GRID"},
         <<"vel">>, FALSE)
Args_L87(e) ==
    [p1 |-> e["RStar"], p2 |-> e["MStar"], p3 |-> e["Rd"],
     p4 |-> e["density"], p5 |-> e["GRID"]]

Stmt_L92 == Pure("L92", 92, {}, <<"ab0">>, TRUE)
Eval_L92(e) == <<Num(5, -8)>>

Stmt_L93 == Call("L93", 93, "Model.abundance", {"ab0", "NPoints"}, <<"abundance">>, FALSE)
Args_L93(e) == [p1 |-> e["ab0"], p2 |-> e["NPoints"]]

Stmt_L95 == Pure("L95", 95, {}, <<"gtd0">>, TRUE)
Eval_L95(e) == <<Num(100, 0)>>

Stmt_L96 == Call("L96", 96, "Model.gastodust", {"gtd0", "NPoints"}, <<"gtdratio">>, FALSE)
Args_L96(e) == [p1 |-> e["gtd0"], p2 |-> e["NPoints"]]

Stmt_L101 ==
    Call("L101", 101, "Model.DataTab_LIME",
         {"density", "temperature", "vel", "abundance", "gtdratio", "GRID"},
         <<>>, FALSE)
Args_L101(e) ==
    [p1 |-> e["density"].total, p2 |-> e["temperature"].total, p3 |-> e["vel"],
     p4 |-> e["abundance"], p5 |-> e["gtdratio"], p6 |-> e["GRID"]]

Stmt_L106 ==
    Call("L106", 106, "Model.PrintProperties", {"density", "temperature", "GRID"},
         <<>>, FALSE)
Args_L106(e) == [p1 |-> e["density"], p2 |-> e["temperature"], p3 |-> e["GRID"]]

\* print ('Ellapsed time: %.3fs' % (time.time() - t0)): the clock is read
\* first, then the difference is formatted and printed.
Stmt_L111a == Call("L111a", 111, "time.time", {}, <<"_now">>, FALSE)
Args_L111a(e) == [none |-> TRUE]

Stmt_L111b == Call("L111b", 111, "print", {"_now", "t0"}, <<>>, TRUE)
Args_L111b(e) ==
    [p1 |-> [fmt |-> "Ellapsed time: %.3fs", v |-> Sub(e["_now"], e["t0"])]]

Stmt_L112 == Call("L112", 112, "print", {}, <<>>, TRUE)
Args_L112(e) ==
    [p1 |-> Str("-------------------------------------------------\n-------------------------------------------------\n")]

Stmt_L117 == Pure("L117", 117, {}, <<"tag">>, TRUE)
Eval_L117(e) == <<Str("Burger")>>

Stmt_L118_RebindsDensity == Pure("L118", 118, {"density"}, <<"density">>, TRUE)
Stmt_L118 == Pure("L118", 118, {"density"}, <<"dens_plot">>, TRUE)
Eval_L118(e) == <<Div(e["density"].total, Num(1, 6))>>

\* vmin, vmax = np.array([lo, hi]) / 1e6 : the array is built by a call,
\* then divided and unpacked.
Stmt_L120a == Call("L120a", 120, "np.array", {}, <<"_arr">>, TRUE)
Args_L120a(e) == [p1 |-> List(<<Num(5, 11), Num(5, 15)>>)]

Stmt_L120b == Pure("L120b", 120, {"_arr"}, <<"vmin", "vmax">>, TRUE)
Eval_L120b(e) == Div(e["_arr"], Num(1, 6)).a

Stmt_L121 == Call("L121", 121, "colors.LogNorm", {"vmin", "vmax"}, <<"norm">>, FALSE)
Args_L121(e) == [vmin |-> e["vmin"], vmax |-> e["vmax"]]

Stmt_L123 == Pure("L123", 123, {"T10Env"}, <<"weight">>, TRUE)
Eval_L123(e) == <<Mul(Num(10, 0), e["T10Env"])>>

Stmt_L124 ==
    Call("L124", 124, "Plot_model.scatter3D",
         {"GRID", "temperature", "weight", "dens_plot", "norm", "tag"}, <<>>, TRUE)
Args_L124(e) ==
    [p1 |-> e["GRID"], p2 |-> e["temperature"].total, p3 |-> e["weight"],
     NRand |-> Num(4000, 0), colordim |-> e["dens_plot"], axisunit |-> U("AU"),
     cmap |-> "hot", norm |-> e["norm"], colorlabel |-> "$\\rho$ $[cm^{-3}]$",
     output |-> Format("3Dpoints", ".png", e["tag"]), show |-> FALSE]

Stmt_L131a == Call("L131a", 131, "np.array", {}, <<"_arr">>, TRUE)
Args_L131a(e) == [p1 |-> List(<<Num(1, 12), Num(1, 17)>>)]

Stmt_L131b == Pure("L131b", 131, {"_arr"}, <<"vmin", "vmax">>, TRUE)
Eval_L131b(e) == Div(e["_arr"], Num(1, 6)).a

Stmt_L132 == Call("L132", 132, "colors.LogNorm", {"vmin", "vmax"}, <<"norm">>, FALSE)
Args_L132(e) == [vmin |-> e["vmin"], vmax |-> e["vmax"]]

Stmt_L134 ==
    Call("L134", 134, "Plot_model.plane2D", {"GRID", "dens_plot", "norm", "tag"},
         <<>>, TRUE)
Args_L134(e) ==
    [p1 |-> e["GRID"], p2 |-> e["dens_plot"], axisunit |-> U("AU"),
     cmap |-> "ocean_r", plane |-> [z |-> Mul(Num(0, 0), U("AU"))],
     norm |-> e["norm"], colorlabel |-> "$[\\rm cm^{-3}]$",
     output |-> Format("DensMidplane_", ".png", e["tag"]), show |-> FALSE]

Stmt_L137a == Call("L137a", 137, "np.array", {}, <<"_arr">>, TRUE)
Args_L137a(e) == [p1 |-> List(<<Num(1, 11), Num(5, 15)>>)]

Stmt_L137b == Pure("L137b", 137, {"_arr"}, <<"vmin", "vmax">>, TRUE)
Eval_L137b(e) == Div(e["_arr"], Num(1, 6)).a

Stmt_L138_NotAssigned == Call("L138", 138, "colors.LogNorm", {"vmin", "vmax"}, <<>>, FALSE)
Stmt_L138 == Call("L138", 138, "colors.LogNorm", {"vmin", "vmax"}, <<"norm">>, FALSE)
Args_L138(e) == [vmin |-> e["vmin"], vmax |-> e["vmax"]]

Stmt_L140 ==
    Call("L140", 140, "Plot_model.plane2D", {"GRID", "dens_plot", "norm", "tag"},
         <<>>, TRUE)
Args_L140_MidplaneName(e) ==
    [p1 |-> e["GRID"], p2 |-> e["dens_plot"], axisunit |-> U("AU"),
     cmap |-> "ocean_r", plane |-> [y |-> Mul(Num(0, 0), U("AU"))],
     norm |-> e["norm"], colorlabel |-> "$[\\rm cm^{-3}]$",
     output |-> Format("DensMidplane_", ".png", e["tag"]), show |-> FALSE]
Args_L140(e) ==
    [p1 |-> e["GRID"], p2 |-> e["dens_plot"], axisunit |-> U("AU"),
     cmap |-> "ocean_r", plane |-> [y |-> Mul(Num(0, 0), U("AU"))],
     norm |-> e["norm"], colorlabel |-> "$[\\rm cm^{-3}]$",
     output |-> Format("DensVertical_", ".png", e["tag"]), show |-> FALSE]

Stmt_L143a == Call("L143a", 143, "np.array", {}, <<"_arr">>, TRUE)
Args_L143a(e) == [p1 |-> List(<<Num(5, 1), Num(3, 3)>>)]

Stmt_L143b == Pure("L143b", 143, {"_arr"}, <<"vmin", "vmax">>, FALSE)
Eval_L143b(e) == e["_arr"].a

Stmt_L144 == Call("L144", 144, "colors.LogNorm", {"vmin", "vmax"}, <<"norm">>, FALSE)
Args_L144(e) == [vmin |-> e["vmin"], vmax |-> e["vmax"]]

Stmt_L146 ==
    Call("L146", 146, "Plot_model.plane2D", {"GRID", "temperature", "norm", "tag"},
         <<>>, TRUE)
Args_L146(e) ==
    [p1 |-> e["GRID"], p2 |-> e["temperature"].total, axisunit |-> U("AU"),
     cmap |-> "ocean_r", plane |-> [z |-> Mul(Num(0, 0), U("AU"))],
     norm |-> e["norm"], colorlabel |-> "[Kelvin]",
     output |-> Format("TempMidplane_", ".png", e["tag"]), show |-> FALSE]

Stmt_L149a == Call("L149a", 149, "np.array", {}, <<"_arr">>, TRUE)
Args_L149a(e) == [p1 |-> List(<<Num(5, 1), Num(2, 3)>>)]

Stmt_L149b == Pure("L149b", 149, {"_arr"}, <<"vmin", "vmax">>, FALSE)
Eval_L149b(e) == e["_arr"].a

Stmt_L150 == Call("L150", 150, "colors.LogNorm", {"vmin", "vmax"}, <<"norm">>, FALSE)
Args_L150(e) == [vmin |-> e["vmin"], vmax |-> e["vmax"]]

Stmt_L152 ==
    Call("L152", 152, "Plot_model.plane2D", {"GRID", "temperature", "norm", "tag"},
         <<>>, TRUE)
Args_L152(e) ==
    [p1 |-> e["GRID"], p2 |-> e["temperature"].total, axisunit |-> U("AU"),
     cmap |-> "ocean_r", plane |-> [y |-> Mul(Num(0, 0), U("AU"))],
     norm |-> e["norm"], colorlabel |-> "[Kelvin]",
     output |-> Format("TempVertical_", ".png", e["tag"]), show |-> FALSE]

Stmt_L156a == Call("L156a", 156, "np.array", {}, <<"_arr">>, TRUE)
Args_L156a(e) == [p1 |-> List(<<Num(3, 7), Num(5, 12)>>)]

Stmt_L156b == Pure("L156b", 156, {"_arr"}, <<"vmin", "vmax">>, FALSE)
Eval_L156b(e) == e["_arr"].a

Stmt_L157 == Call("L157", 157, "colors.LogNorm", {"vmin", "vmax"}, <<"norm">>, FALSE)
Args_L157(e) == [vmin |-> e["vmin"], vmax |-> e["vmax"]]

Stmt_L159 ==
    Call("L159", 159, "Plot_model.plane2D",
         {"GRID", "temperature", "dens_plot", "norm", "tag"}, <<>>, TRUE)
Args_L159(e) ==
    [p1 |-> e["GRID"], p2 |-> Mul(e["temperature"].total, e["dens_plot"]),
     axisunit |-> U("AU"), cmap |-> "ocean_r",
     plane |-> [y |-> Mul(Num(0, 0), U("AU"))], norm |-> e["norm"],
     colorlabel |-> "[$\\rho$ T]",
     output |-> Format("Emissivity_", ".png", e["tag"]), show |-> FALSE]

\* The sections of the script, as its comments head them.
StartTimer == <<Stmt_L17>>

GeneralParameters ==
    <<Stmt_L22, Stmt_L23, Stmt_L24, Stmt_L25, Stmt_L26, Stmt_L27, Stmt_L29>>

GridDefinition == <<Stmt_L36, Stmt_L37, Stmt_L38, Stmt_L39>>

Envelope == <<Stmt_L48, Stmt_L49, Stmt_L50, Stmt_L51>>

Disc == <<Stmt_L56, Stmt_L57, Stmt_L58, Stmt_L59>>

CompositeDensity == <<Stmt_L64>>

Temperature_VelocityFirst == <<Stmt_L87, Stmt_L78, Stmt_L79, Stmt_L80, Stmt_L81>>
Temperature == <<Stmt_L78, Stmt_L79, Stmt_L80, Stmt_L81>>

Velocity == <<Stmt_L87>>

AbundanceGasToDust == <<Stmt_L92, Stmt_L93, Stmt_L95, Stmt_L96>>

WritingData_Skipped == <<>>
WritingData == <<Stmt_L101>>

PrintingProperties_Twice == <<Stmt_L106, Stmt_L106>>
PrintingProperties == <<Stmt_L106>>

Timing == <<Stmt_L111a, Stmt_L111b, Stmt_L112>>

Plotting3D ==
    <<Stmt_L117, Stmt_L118, Stmt_L120a, Stmt_L120b, Stmt_L121, Stmt_L123,
      Stmt_L124>>

Plotting2D_NoEmissivity ==
    <<Stmt_L131a, Stmt_L131b, Stmt_L132, Stmt_L134,
      Stmt_L137a, Stmt_L137b, Stmt_L138, Stmt_L140,
      Stmt_L143a, Stmt_L143b, Stmt_L144, Stmt_L146,
      Stmt_L149a, Stmt_L149b, Stmt_L150, Stmt_L152>>
Plotting2D ==
    <<Stmt_L131a, Stmt_L131b, Stmt_L132, Stmt_L134,
      Stmt_L137a, Stmt_L137b, Stmt_L138, Stmt_L140,
      Stmt_L143a, Stmt_L143b, Stmt_L144, Stmt_L146,
      Stmt_L149a, Stmt_L149b, Stmt_L150, Stmt_L152,
      Stmt_L156a, Stmt_L156b, Stmt_L157, Stmt_L159>>

\* The script: its statements in source order.
Script ==
    StartTimer \o GeneralParameters \o GridDefinition \o Envelope \o Disc \o
    CompositeDensity \o Temperature \o Velocity \o AbundanceGasToDust \o
    WritingData \o PrintingProperties \o Timing \o Plotting3D \o Plotting2D

\* The values a pure statement binds to its targets.
EvalStmt(id, e) ==
    CASE id = "L22" -> Eval_L22(e)   [] id = "L23" -> Eval_L23(e)
      [] id = "L24" -> Eval_L24(e)   [] id = "L25" -> Eval_L25(e)
      [] id = "L26" -> Eval_L26(e)   [] id = "L27" -> Eval_L27(e)
      [] id = "L36" -> Eval_L36(e)   [] id = "L37" -> Eval_L37(e)
      [] id = "L39" -> Eval_L39(e)   [] id = "L49" -> Eval_L49(e)
      [] id = "L50" -> Eval_L50(e)   [] id = "L56" -> Eval_L56(e)
      [] id = "L57" -> Eval_L57(e)   [] id = "L58" -> Eval_L58(e)
      [] id = "L78" -> Eval_L78(e)   [] id = "L79" -> Eval_L79(e)
      [] id = "L80" -> Eval_L80(e)   [] id = "L92" -> Eval_L92(e)
      [] id = "L95" -> Eval_L95(e)   [] id = "L117" -> Eval_L117(e)
      [] id = "L118" -> Eval_L118(e) [] id = "L120b" -> Eval_L120b(e)
      [] id = "L123" -> Eval_L123(e) [] id = "L131b" -> Eval_L131b(e)
      [] id = "L137b" -> Eval_L137b(e) [] id = "L143b" -> Eval_L143b(e)
      [] id = "L149b" -> Eval_L149b(e) [] id = "L156b" -> Eval_L156b(e)

\* The arguments a call statement passes.
ArgsStmt(id, e) ==
    CASE id = "L17" -> Args_L17(e)   [] id = "L29" -> Args_L29(e)
      [] id = "L38" -> Args_L38(e)   [] id = "L48" -> Args_L48(e)
      [] id = "L51" -> Args_L51(e)   [] id = "L59" -> Args_L59(e)
      [] id = "L64" -> Args_L64(e)   [] id = "L81" -> Args_L81(e)
      [] id = "L87" -> Args_L87(e)   [] id = "L93" -> Args_L93(e)
      [] id = "L96" -> Args_L96(e)   [] id = "L101" -> Args_L101(e)
      [] id = "L106" -> Args_L106(e) [] id = "L111a" -> Args_L111a(e)
      [] id = "L111b" -> Args_L111b(e) [] id = "L112" -> Args_L112(e)
      [] id = "L120a" -> Args_L120a(e) [] id = "L121" -> Args_L121(e)
      [] id = "L124" -> Args_L124(e) [] id = "L131a" -> Args_L131a(e)
      [] id = "L132" -> Args_L132(e) [] id = "L134" -> Args_L134(e)
      [] id = "L137a" -> Args_L137a(e) [] id = "L138" -> Args_L138(e)
      [] id = "L140" -> Args_L140(e) [] id = "L143a" -> Args_L143a(e)
      [] id = "L144" -> Args_L144(e) [] id = "L146" -> Args_L146(e)
      [] id = "L149a" -> Args_L149a(e) [] id = "L150" -> Args_L150(e)
      [] id = "L152" -> Args_L152(e) [] id = "L156a" -> Args_L156a(e)
      [] id = "L157" -> Args_L157(e) [] id = "L159" -> Args_L159(e)

\* Every name the script binds.
Names ==
    UNION {{Script[i].targets[j] : j \in 1..Len(Script[i].targets)} :
           i \in 1..Len(Script)}

\* ------------------------------------------------------------ the library
\* Field arrays the library can return: NCells values each.
DensArrays == [1..NCells -> {Num(v, 0) : v \in 0..MaxVal}]
\* Temperatures are floored at Tmin, hence never zero.
TempArrays == [1..NCells -> {Num(v, 0) : v \in 1..MaxVal}]

\* What a call can return.
Results(fn, args) ==
    CASE fn = "time.time" -> {[clock |-> "reading"]}
      [] fn = "Model.grid" ->
            {[NPoints |-> Opaque("GRID.NPoints"), XYZ |-> Opaque("GRID.XYZ")]}
      [] fn = "Res.Rho0" -> {Opaque("Rho0")}
      [] fn = "Model.density_Env_Disc" ->
            {[total |-> Arr(a), r_env |-> Opaque("r_env"),
              streamline |-> Opaque("streamline")] : a \in DensArrays}
      [] fn = "Model.density_Hamburgers" ->
            {[total |-> Arr(a), H |-> Opaque("H"), Rt |-> Opaque("Rt"),
              r_disc |-> Opaque("r_disc")] : a \in DensArrays}
      [] fn = "Model.Struct" -> {args}
      [] fn = "Model.temperature_Hamburgers" ->
            {[total |-> Arr(a)] : a \in TempArrays}
      [] fn = "Model.velocity" -> {Opaque("vel")}
      [] fn = "Model.abundance" -> {Opaque("abundance")}
      [] fn = "Model.gastodust" -> {Opaque("gtdratio")}
      [] fn = "np.array" -> {Arr(args.p1.l)}
      [] fn = "colors.LogNorm" -> {[vmin |-> args.vmin, vmax |-> args.vmax]}
      [] OTHER -> {None}

\* The files a call has written when it returns.
Effects(fn, args) ==
    CASE fn = "Model.DataTab_LIME" -> <<"datatab.dat">>
      [] fn \in {"Plot_model.scatter3D", "Plot_model.plane2D"} -> <<args.output>>
      [] OTHER -> <<>>

\* Where a call's result comes from.
Origin(fn) == IF fn = "time.time" THEN "clock" ELSE "lib"

\* ------------------------------------------------------------ the interpreter
AllBound(s) == \A v \in s.reads : env[v] # Unbound

\* What the statement's values depend on.
DepOf(s) ==
    UNION {dep[v] : v \in s.reads} \cup (IF s.lits THEN {"lit"} ELSE {})

IndexOf(q, v) == CHOOSE j \in 1..Len(q) : q[j] = v
InSeq(q, v) == \E j \in 1..Len(q) : q[j] = v

Bind(f, targets, vals) ==
    [v \in Names |-> IF InSeq(targets, v) THEN vals[IndexOf(targets, v)] ELSE f[v]]

BindDep(targets, d) ==
    [v \in Names |-> IF InSeq(targets, v) THEN d ELSE dep[v]]

Count(targets) ==
    [v \in Names |-> IF InSeq(targets, v) THEN binds[v] + 1 ELSE binds[v]]

OnException_Swallowed(p) == [status |-> "running", pc |-> p + 1]
\* An exception nothing catches: the script has no try statement.
OnException(p) == [status |-> "failed", pc |-> p]

Init ==
    /\ pc = 1
    /\ status = "running"
    /\ stack = <<>>
    /\ env = [v \in Names |-> Unbound]
    /\ dep = [v \in Names |-> {}]
    /\ binds = [v \in Names |-> 0]
    /\ log = <<>>
    /\ written = <<>>
    /\ err = "none"

Running == status = "running" /\ stack = <<>> /\ pc <= Len(Script)

\* A statement without a call runs to completion.
ExecPure ==
    /\ Running
    /\ Script[pc].kind = "pure"
    /\ AllBound(Script[pc])
    /\ LET s == Script[pc] IN
        /\ env' = Bind(env, s.targets, EvalStmt(s.id, env))
        /\ dep' = BindDep(s.targets, DepOf(s))
        /\ binds' = Count(s.targets)
    /\ pc' = pc + 1
    /\ UNCHANGED <<status, stack, log, written, err>>

\* A call statement evaluates its arguments and enters the function.
CallLib ==
    /\ Running
    /\ Script[pc].kind = "call"
    /\ AllBound(Script[pc])
    /\ LET s == Script[pc]
           c == [ev |-> "call", id |-> s.id, fn |-> s.fn,
                 val |-> ArgsStmt(s.id, env), dep |-> DepOf(s)]
       IN  /\ stack' = Append(stack, c)
           /\ log' = Append(log, c)
    /\ UNCHANGED <<pc, status, env, dep, binds, written, err>>

\* The function returns: its files are written, its result is bound.
ReturnLib ==
    /\ status = "running"
    /\ stack # <<>>
    /\ LET c == stack[Len(stack)]
           s == Script[pc]
       IN  \E r \in Results(c.fn, c.val) :
            /\ log' = Append(log, [ev |-> "ret", id |-> c.id, fn |-> c.fn,
                                   val |-> r, dep |-> c.dep \cup {Origin(c.fn)}])
            /\ written' = written \o
                  [j \in 1..Len(Effects(c.fn, c.val)) |->
                      [by |-> c.id, fn |-> c.fn, name |-> Effects(c.fn, c.val)[j]]]
            /\ env' = Bind(env, s.targets, <<r>>)
            /\ dep' = BindDep(s.targets, c.dep \cup {Origin(c.fn)})
            /\ binds' = Count(s.targets)
    /\ stack' = SubSeq(stack, 1, Len(stack) - 1)
    /\ pc' = pc + 1
    /\ UNCHANGED <<status, err>>

\* The function raises: nothing is written or bound, the exception leaves
\* the script.
RaiseInLib ==
    /\ status = "running"
    /\ stack # <<>>
    /\ log' = Append(log, [ev |-> "raise", id |-> stack[Len(stack)].id,
                           fn |-> stack[Len(stack)].fn, val |-> None, dep |-> {}])
    /\ stack' = <<>>
    /\ status' = OnException(pc).status
    /\ pc' = OnException(pc).pc
    /\ err' = "LibError"
    /\ UNCHANGED <<env, dep, binds, written>>

\* The statement's own evaluation raises: a name that is not bound, or any
\* other failure of the expression.
RaiseInStmt ==
    /\ Running
    /\ status' = OnException(pc).status
    /\ pc' = OnException(pc).pc
    /\ err' = IF AllBound(Script[pc]) THEN "Error" ELSE "NameError"
    /\ UNCHANGED <<stack, env, dep, binds, log, written>>

\* Past the last statement the interpreter exits normally.
Exit ==
    /\ status = "running"
    /\ stack = <<>>
    /\ pc = Len(Script) + 1
    /\ status' = "done"
    /\ UNCHANGED <<pc, stack, env, dep, binds, log, written, err>>

Next == ExecPure \/ CallLib \/ ReturnLib \/ RaiseInLib \/ RaiseInStmt \/ Exit

Spec == Init /\ [][Next]_vars

\* The runs in which no statement and no library call raises.
NextNoRaise == ExecPure \/ CallLib \/ ReturnLib \/ Exit

SpecNoRaise == Init /\ [][NextNoRaise]_vars /\ WF_vars(NextNoRaise)

TypeOK ==
    /\ pc \in 1..(Len(Script) + 1)
    /\ status \in {"running", "failed", "done"}
    /\ Len(stack) <= 1
    /\ err \in {"none", "Error", "LibError", "NameError"}

\* ------------------------------------------------------------ reading the log
IsCall(i) == log[i].ev = "call"
HasCall(id) == \E i \in 1..Len(log) : IsCall(i) /\ log[i].id = id
HasRet(id) == \E i \in 1..Len(log) : log[i].ev = "ret" /\ log[i].id = id
\* The arguments statement id passed, and the value its call returned.
ArgsOf(id) == log[CHOOSE i \in 1..Len(log) : IsCall(i) /\ log[i].id = id].val
RetOf(id) == log[CHOOSE i \in 1..Len(log) : log[i].ev = "ret" /\ log[i].id = id].val

Plotters == {"Plot_model.scatter3D", "Plot_model.plane2D"}
Plots == SelectSeq(written, LAMBDA w : w.fn \in Plotters)
NamesOf(q) == {q[i].name : i \in 1..Len(q)}
CountBy(fn) == Cardinality({i \in 1..Len(written) : written[i].fn = fn})
\* The value of a float with a non-negative exponent.
Val(n) == n.m * Pow10(n.e)

\* The stage of the pipeline a library function belongs to (0: none).
Stage(fn) ==
    CASE fn = "Model.grid" -> 1
      [] fn = "Model.density_Env_Disc" -> 2
      [] fn = "Model.density_Hamburgers" -> 3
      [] fn = "Model.Struct" -> 4
      [] fn = "Model.temperature_Hamburgers" -> 5
      [] fn = "Model.velocity" -> 6
      [] fn = "Model.abundance" -> 7
      [] fn = "Model.gastodust" -> 8
      [] fn = "Model.DataTab_LIME" -> 9
      [] fn = "Model.PrintProperties" -> 10
      [] fn = "Plot_model.scatter3D" -> 11
      [] fn = "Plot_model.plane2D" -> 12
      [] OTHER -> 0

\* ------------------------------------------------------------------ claims

\* The call that started last, when it belongs to a stage, started after
\* every call of an earlier stage had returned and before any call of a
\* later stage.  The log only grows, so every call was once the last.
LastCallInOrder ==
    LET n == IF stack # <<>> THEN Len(log) ELSE Len(log) - 1 IN
    (n >= 1 /\ IsCall(n) /\ Stage(log[n].fn) > 0) =>
        /\ \A i \in 1..(n - 1) : IsCall(i) => Stage(log[i].fn) <= Stage(log[n].fn)
        /\ \A k \in 1..(Stage(log[n].fn) - 1) :
              \E i \in 1..(n - 1) : log[i].ev = "ret" /\ Stage(log[i].fn) = k

\* C1: the library calls run one at a time, each returning (or raising)
\* before the next starts, and the stages start in the order grid, envelope
\* density, disc density, composite, temperature, velocity, abundance,
\* gas-to-dust, LIME export, property printing, scatter3D, plane2D: a stage
\* starts only after every earlier stage has been called and has returned.
C1_StagesInOrder ==
    /\ Len(stack) <= 1
    /\ \A i \in 1..Len(log) :
          IsCall(i) =>
             IF i = Len(log) THEN stack = <<log[i]>>
             ELSE log[i + 1].ev \in {"ret", "raise"} /\ log[i + 1].id = log[i].id
    /\ LastCallInOrder

C1_Witness == stack # <<>> /\ stack[1].id = "L159"

\* C2 as stated: a run that completes has written one scatter3D image and
\* four plane2D images.
C2_FourPlanePlots ==
    status = "done" =>
        CountBy("Plot_model.scatter3D") = 1 /\ CountBy("Plot_model.plane2D") = 4

\* C2 amended: a run that completes has written one scatter3D image and five
\* plane2D images (two of density, two of temperature, one of emissivity).
C2_FivePlanePlots ==
    status = "done" =>
        /\ CountBy("Plot_model.scatter3D") = 1
        /\ CountBy("Plot_model.plane2D") = 5
        /\ Cardinality(NamesOf(Plots)) = 6

C2_Witness ==
    status = "done" /\ written[Len(written)].name = "Emissivity_Burger.png"

\* C3: when no statement and no library call raises, the script terminates,
\* and then the LIME file has been written by Model.DataTab_LIME and every
\* image a plotting call was asked for has been written.
C3_TerminatesWithOutputs ==
    <>( /\ status = "done"
        /\ \E i \in 1..Len(written) : written[i].fn = "Model.DataTab_LIME"
        /\ \A i \in 1..Len(log) :
              IsCall(i) /\ log[i].fn \in Plotters =>
                 \E j \in 1..Len(written) :
                    written[j].by = log[i].id /\ written[j].name = log[i].val.output
        /\ Len(Plots) = 6 )

C3_Witness == status = "done" /\ err = "none" /\ Len(written) = 7

\* The place of the export call in the script, and the plotting statements
\* before place k.
LimeIdx == CHOOSE i \in 1..Len(Script) : Script[i].fn = "Model.DataTab_LIME"
PlotsBefore(k) ==
    {Script[i].id : i \in {j \in 1..(k - 1) : Script[j].fn \in Plotters}}

\* C4: a failure ends the script where it happens: the script is failed and
\* takes no further step, nothing of a later statement is in the log, a
\* failure at or before Model.DataTab_LIME leaves no plot, a failure before
\* it leaves no file at all, and a failure in a plotting call leaves exactly
\* the plots of the earlier plotting calls.
C4_FailureEndsScript ==
    err # "none" =>
        /\ status = "failed"
        /\ ~ENABLED Next
        /\ pc <= Len(Script)
        /\ \A i \in 1..Len(log) :
              \E k \in 1..pc : Script[k].id = log[i].id
        /\ pc <= LimeIdx => Plots = <<>>
        /\ pc < LimeIdx => written = <<>>
        /\ Script[pc].fn \in Plotters =>
              /\ {Plots[i].by : i \in 1..Len(Plots)} = PlotsBefore(pc)
              /\ Len(Plots) = Cardinality(PlotsBefore(pc))

C4_Witness ==
    /\ status = "failed"
    /\ err = "LibError"
    /\ Script[pc].id = "L146"
    /\ Len(Plots) = 3

Aggregates ==
    {"GRID", "densEnv", "densDisc", "density", "temperature", "vel",
     "abundance", "gtdratio"}

\* C5: each aggregate object is bound at most once, exactly once in a run
\* that completes, and no statement reads a name before it is bound.
C5_BoundOnce ==
    /\ \A v \in Aggregates :
          /\ binds[v] <= 1
          /\ binds[v] = 1 <=> env[v] # Unbound
          /\ status = "done" => binds[v] = 1
    /\ err # "NameError"

C5_Witness == status = "done" /\ \A v \in Aggregates : binds[v] = 1

\* The call sites of the script in the order a complete run executes them.
CallSites ==
    <<"L17", "L29", "L38", "L48", "L51", "L59", "L64", "L81", "L87", "L93",
      "L96", "L101", "L106", "L111a", "L111b", "L112", "L120a", "L121",
      "L124", "L131a", "L132", "L134", "L137a", "L138", "L140", "L143a",
      "L144", "L146", "L149a", "L150", "L152", "L156a", "L157", "L159">>
\* Calls and their returns alternate in the log, so the k-th call is entry
\* 2k - 1 and its return (or raise) entry 2k: the k-th call is the k-th call
\* site, and a complete run has made them all.
OneShot ==
    /\ Cardinality({CallSites[k] : k \in 1..Len(CallSites)}) = Len(CallSites)
    /\ Len(log) <= 2 * Len(CallSites)
    /\ \A i \in 1..Len(log) :
          /\ log[i].id = CallSites[(i + 1) \div 2]
          /\ IsCall(i) <=> i % 2 = 1
    /\ status = "done" => Len(log) = 2 * Len(CallSites)

\* C6 as stated: no call site runs twice, a complete run issues the fixed
\* sequence of calls, and no call's arguments depend on the clock.
C6_NoCallReadsClock ==
    /\ OneShot
    /\ \A i \in 1..Len(log) : IsCall(i) => log[i].dep \subseteq {"lit", "lib"}

\* C6 amended: no call site runs twice, a complete run issues the fixed
\* sequence of calls, and the arguments of every call depend only on
\* literals and earlier library results, except the print of line 111,
\* whose argument is the clock difference time.time() - t0.
C6_OnlyElapsedPrintReadsClock ==
    /\ OneShot
    /\ \A i \in 1..Len(log) :
          IsCall(i) =>
             IF log[i].id = "L111b"
             THEN "clock" \in log[i].dep
             ELSE log[i].dep \subseteq {"lit", "lib"}

C6_Witness ==
    /\ status = "done"
    /\ HasCall("L111b")
    /\ ArgsOf("L111b").p1.v = Term("-", env["_now"], env["t0"])
    /\ \E i \in 1..Len(log) : IsCall(i) /\ log[i].id = "L111b" /\ "clock" \in log[i].dep

PlotNames ==
    [L124 |-> "3DpointsBurger.png", L134 |-> "DensMidplane_Burger.png",
     L140 |-> "DensVertical_Burger.png", L146 |-> "TempMidplane_Burger.png",
     L152 |-> "TempVertical_Burger.png", L159 |-> "Emissivity_Burger.png"]

\* C7: every image is written under one of six fixed names, each plotting
\* call under its own, so no image is written twice.
C7_FixedDistinctNames ==
    /\ \A i \in 1..Len(Plots) :
          /\ Plots[i].by \in DOMAIN PlotNames
          /\ Plots[i].name = PlotNames[Plots[i].by]
    /\ \A i, j \in 1..Len(written) : written[i].name = written[j].name => i = j
    /\ \A i \in 1..Len(log) :
          IsCall(i) /\ log[i].fn \in Plotters =>
             log[i].val.output = PlotNames[log[i].id]

C7_Witness == Len(Plots) = 6 /\ Cardinality(NamesOf(Plots)) = 6

\* C8: the composite density is the node-wise sum of the envelope and disc
\* densities the library returned, with env and disc the two components and
\* both flags set; that composite is what temperature_Hamburgers, velocity
\* and PrintProperties receive, and DataTab_LIME receives its total with
\* the total of the temperature computed from it.
C8_CompositeDensity ==
    /\ HasCall("L64") =>
          LET d == ArgsOf("L64") IN
          /\ Len(d.total.a) = NCells
          /\ \A i \in 1..NCells :
                Val(d.total.a[i]) =
                   Val(RetOf("L51").total.a[i]) + Val(RetOf("L59").total.a[i])
          /\ d.env = RetOf("L51").total
          /\ d.disc = RetOf("L59").total
          /\ d.discFlag /\ d.envFlag
    /\ HasRet("L64") => RetOf("L64") = ArgsOf("L64") /\ env["density"] = RetOf("L64")
    /\ HasCall("L81") => ArgsOf("L81").p8 = RetOf("L64")
    /\ HasCall("L87") => ArgsOf("L87").p4 = RetOf("L64")
    /\ HasCall("L106") =>
          ArgsOf("L106").p1 = RetOf("L64") /\ ArgsOf("L106").p2 = RetOf("L81")
    /\ HasCall("L101") =>
          /\ ArgsOf("L101").p1 = RetOf("L64").total
          /\ ArgsOf("L101").p2 = RetOf("L81").total

C8_Witness ==
    /\ HasCall("L101")
    /\ \E i \in 1..NCells :
          /\ RetOf("L51").total.a[i].m > 0
          /\ RetOf("L59").total.a[i].m > 0

\* C9: the envelope call gets Arho = None with discFlag False and envFlag
\* True, the disc call gets Arho = 5.25 with discFlag True, both get the
\* same RStar, Rd, Rho0 and GRID, and the envelope density stays what the
\* envelope call returned after Arho is rebound.
C9_ArhoPerCall ==
    /\ HasCall("L51") =>
          LET a == ArgsOf("L51") IN
          /\ a.p4 = [none |-> TRUE]
          /\ ~a.discFlag /\ a.envFlag
          /\ a.p3 = RetOf("L48")
          /\ a.p5 = RetOf("L38")
    /\ HasCall("L59") =>
          LET a == ArgsOf("L51")
              b == ArgsOf("L59")
          IN  /\ b.p5 = [m |-> 525, e |-> -2]
              /\ b.discFlag
              /\ b.p1 = a.p1 /\ b.p3 = a.p2 /\ b.p4 = a.p3 /\ b.p6 = a.p5
    /\ HasRet("L51") => env["densEnv"] = RetOf("L51")

C9_Witness ==
    /\ HasRet("L59")
    /\ env["Arho"] = [m |-> 525, e |-> -2]
    /\ env["densEnv"] = RetOf("L51")

Limits(lo, le, hi, he) ==
    [vmin |-> [m |-> lo, e |-> le], vmax |-> [m |-> hi, e |-> he]]
NormFor ==
    [L124 |-> Limits(5, 5, 5, 9), L134 |-> Limits(1, 6, 1, 11),
     L140 |-> Limits(1, 5, 5, 9), L146 |-> Limits(5, 1, 3, 3),
     L152 |-> Limits(5, 1, 2, 3), L159 |-> Limits(3, 7, 5, 12)]
IsDensPlot(v) ==
    /\ Len(v.a) = NCells
    /\ \A i \in 1..NCells : NumMul(v.a[i], [m |-> 1, e |-> 6]) = RetOf("L64").total.a[i]

\* C10: every plotting call receives the norm that the colors.LogNorm call
\* just before it returned, and that call was given the limits of that
\* plot: scatter3D 5e5..5e9,
\* density midplane 1e6..1e11, density vertical 1e5..5e9, temperature
\* midplane 5e1..3e3, temperature vertical 5e1..2e3, emissivity 3e7..5e12;
\* the density plots show density.total / 1e6 and the temperature plots
\* temperature.total.
C10_FreshNorm ==
    /\ \A i \in 1..Len(log) :
          IsCall(i) /\ log[i].fn \in Plotters =>
             /\ i > 2
             /\ IsCall(i - 2) /\ log[i - 2].fn = "colors.LogNorm"
             /\ log[i - 2].val = NormFor[log[i].id]
             /\ log[i - 1].ev = "ret" /\ log[i - 1].id = log[i - 2].id
             /\ log[i].val.norm = log[i - 1].val
    /\ HasCall("L124") =>
          IsDensPlot(ArgsOf("L124").colordim) /\ ArgsOf("L124").p2 = RetOf("L81").total
    /\ HasCall("L134") => IsDensPlot(ArgsOf("L134").p2)
    /\ HasCall("L140") => IsDensPlot(ArgsOf("L140").p2)
    /\ HasCall("L146") => ArgsOf("L146").p2 = RetOf("L81").total
    /\ HasCall("L152") => ArgsOf("L152").p2 = RetOf("L81").total

C10_Witness ==
    /\ HasRet("L159")
    /\ \E i \in 1..NCells : RetOf("L64").total.a[i].m > 0

====
